---- MODULE Spec2Model ----
(***************************************************************************)
(* Model of sandbox/sandbox.go (18F/cg-sandbox): the lifecycle classifier  *)
(* ListPurgeSpaces with its helpers GetFirstResource, groupAppsBySpace and *)
(* groupInstancesBySpace, and the purge executor PurgeSpace.               *)
(*                                                                         *)
(* Instants (Go time.Time) are whole hours counted from Go's zero time     *)
(* (January 1, year 1, 00:00 UTC); durations are whole hours.  A creation  *)
(* timestamp string is a record: ok says whether time.Parse accepts it,    *)
(* wall is its local date-time and off its zone offset, both in hours.     *)
(***************************************************************************)
EXTENDS Integers, Sequences, FiniteSets, TLC

VARIABLES
    spaces, apps, instances, now, notifyThreshold, purgeThreshold, timeStartsAt,
    pc, i, firstResource, err, toNotify, toPurge,
    rerun, prevNotify, prevPurge,
    ppc, purgeSpace, spaceErr, listedApps, j, ret, calls

inputs == <<spaces, apps, instances, notifyThreshold, purgeThreshold, timeStartsAt>>
lvars == <<now, pc, i, firstResource, err, toNotify, toPurge, rerun, prevNotify, prevPurge>>
pvars == <<ppc, purgeSpace, spaceErr, listedApps, j, ret, calls>>
vars == <<inputs, lvars, pvars>>

(***************************** bounds ***********************************)
\* The most resources (applications plus service instances) in a snapshot.
MaxResources == 2
\* The most applications the fallback listing of PurgeSpace returns.
MaxListedApps == 2

(************************* time.Time, time.Duration **********************)
\* The zero value of time.Time.
ZeroTime == 0
\* 24 * time.Hour, the unit of Truncate.
Day == 24
\* The divisor of Hours() / 24.
HoursPerDay == 24
\* The largest time.Duration (2^63 - 1 ns) in whole hours; Sub saturates at it.
MaxDuration == 2562047

IsZero(t) == t = ZeroTime
Before(t, u) == t < u
After(t, u) == t > u

\* t.Truncate(d): round t down to a multiple of d since the zero time.
Truncate(t, d) == t - (t % d)

\* Fault: Sub that wraps around like int64 arithmetic instead of saturating.
SubWrapping(t, u) ==
    IF t - u > MaxDuration THEN t - u - 2 * MaxDuration - 1
    ELSE IF t - u < -MaxDuration THEN t - u + 2 * MaxDuration + 1
    ELSE t - u

\* t.Sub(u): the duration t - u, saturated to the range of time.Duration.
Sub(t, u) ==
    IF t - u > MaxDuration THEN MaxDuration
    ELSE IF t - u < -MaxDuration THEN -MaxDuration
    ELSE t - u

\* int(x / y) for a float64 quotient: the quotient truncated toward zero.
IntQuot(x, y) == IF x >= 0 THEN x \div y ELSE -((-x) \div y)

\* time.Parse(time.RFC3339Nano, s): the instant of s, or an error.
Parse(s) ==
    IF s.ok THEN [err |-> "nil", t |-> s.wall - s.off]
    ELSE [err |-> "MalformedTimestamp", t |-> ZeroTime]

(***************************** inputs ************************************)
Guids == {"s1", "s2"}

Malformed == [ok |-> FALSE, wall |-> 0, off |-> 0]
\* "0001-01-01T01:00:00+01:00": the zero instant.
StampZero == [ok |-> TRUE, wall |-> 1, off |-> 1]
StampA == [ok |-> TRUE, wall |-> 30, off |-> 0]
StampB == [ok |-> TRUE, wall |-> 58, off |-> -2]
Stamps == {Malformed, StampZero, StampA, StampB}

Resources == [SpaceGuid : Guids, CreatedAt : Stamps]

SeqsUpTo(S, n) == UNION {[1..k -> S] : k \in 0..n}

\* The application list and the service-instance list of a snapshot.
Snapshots ==
    UNION {[1..k -> Resources] \X SeqsUpTo(Resources, MaxResources - k) :
              k \in 0..MaxResources}

\* The space list of an organization: distinct spaces, in any order.
SpaceLists ==
    {s \in SeqsUpTo([Guid : Guids], Cardinality(Guids)) :
        \A a, b \in DOMAIN s : a # b => s[a] # s[b]}

FarNow == MaxDuration + 33
Nows == {12, 80, FarNow}
StartsAt == {36, 48}
BigThreshold == (MaxDuration \div HoursPerDay) + 1
\* <<notifyThreshold, purgeThreshold>>: below, equal, beyond any age, reversed.
ThresholdPairs == {<<0, 2>>, <<0, BigThreshold>>, <<2, 2>>, <<2, 0>>}

(************************* grouping helpers *****************************)
\* groupAppsBySpace / groupInstancesBySpace: the loop over the list from
\* position k on, with the map built so far.
RECURSIVE GroupLoop(_, _, _)
GroupLoop(list, k, grouped) ==
    IF k > Len(list) THEN grouped
    ELSE LET g == list[k].SpaceGuid
             base == IF g \in DOMAIN grouped THEN grouped
                     ELSE [x \in DOMAIN grouped \cup {g} |->
                              IF x = g THEN <<>> ELSE grouped[x]]
         IN GroupLoop(list, k + 1, [base EXCEPT ![g] = Append(base[g], list[k])])

groupAppsBySpace(as) == GroupLoop(as, 1, <<>>)
groupInstancesBySpace(is) == GroupLoop(is, 1, <<>>)

\* grouped[key] of a Go map: the nil (empty) slice for an absent key.
MapGet(grouped, key) == IF key \in DOMAIN grouped THEN grouped[key] ELSE <<>>

\* Fault: a range loop that skips a resource whose timestamp does not parse.
RECURSIVE ScanLoopSkipping(_, _, _)
ScanLoopSkipping(list, k, first) ==
    IF k > Len(list) THEN [t |-> first, err |-> "nil"]
    ELSE LET p == Parse(list[k].CreatedAt)
         IN IF p.err # "nil" THEN ScanLoopSkipping(list, k + 1, first)
            ELSE ScanLoopSkipping(list, k + 1,
                     IF IsZero(first) \/ Before(p.t, first) THEN p.t ELSE first)

\* One of the two range loops of GetFirstResource, from position k on.
RECURSIVE ScanLoop(_, _, _)
ScanLoop(list, k, first) ==
    IF k > Len(list) THEN [t |-> first, err |-> "nil"]
    ELSE LET p == Parse(list[k].CreatedAt)
         IN IF p.err # "nil" THEN [t |-> first, err |-> p.err]
            ELSE ScanLoop(list, k + 1,
                     IF IsZero(first) \/ Before(p.t, first) THEN p.t ELSE first)

GetFirstResource(space, as, is) ==
    LET groupedApps == groupAppsBySpace(as)
        groupedInstances == groupInstancesBySpace(is)
        a == ScanLoop(MapGet(groupedApps, space.Guid), 1, ZeroTime)
    IN IF a.err # "nil" THEN a
       ELSE ScanLoop(MapGet(groupedInstances, space.Guid), 1, a.t)

(************************* ListPurgeSpaces *******************************)
SpaceDetails(t, space) == [Timestamp |-> t, Space |-> space]

\* Fault: no clamping to the epoch floor.
ClampNone(first, floor) == first

\* Lines 223-225: the first resource raised to the epoch floor.
Clamp(first, floor) == IF After(floor, first) THEN floor ELSE first

\* Line 228: int(now.Sub(firstResource).Hours() / 24).
Delta(n, anchor) == IntQuot(Sub(n, anchor), HoursPerDay)

\* error values of the platform client; NoError is nil.
NoError == [op |-> "nil", guid |-> ""]
Failure(op, guid) == [op |-> op, guid |-> guid]

IdlePurge ==
    /\ ppc = "idle"
    /\ purgeSpace = [Guid |-> "s1"]
    /\ spaceErr = NoError
    /\ listedApps = <<>>
    /\ j = 1
    /\ ret = NoError
    /\ calls = <<>>

Init ==
    /\ spaces \in SpaceLists
    /\ \E snap \in Snapshots : apps = snap[1] /\ instances = snap[2]
    /\ now \in Nows
    /\ \E th \in ThresholdPairs : notifyThreshold = th[1] /\ purgeThreshold = th[2]
    /\ timeStartsAt \in StartsAt
    /\ pc = "loop"
    /\ i = 1
    /\ firstResource = ZeroTime
    /\ err = "nil"
    /\ toNotify = <<>>
    /\ toPurge = <<>>
    /\ rerun = FALSE
    /\ prevNotify = <<>>
    /\ prevPurge = <<>>
    /\ IdlePurge

\* Fault: Resolve without the IsZero check of line 220.
ResolveNoSkip ==
    /\ pc = "loop"
    /\ i <= Len(spaces)
    /\ LET r == GetFirstResource(spaces[i], apps, instances)
       IN /\ firstResource' = r.t
          /\ err' = r.err
          /\ IF r.err # "nil" THEN pc' = "done" /\ i' = i
             ELSE pc' = "classify" /\ i' = i
    /\ UNCHANGED <<inputs, now, toNotify, toPurge, rerun, prevNotify, prevPurge, pvars>>

\* Lines 215-222: the next space's first resource; return on an error,
\* continue on the zero time.
Resolve ==
    /\ pc = "loop"
    /\ i <= Len(spaces)
    /\ LET r == GetFirstResource(spaces[i], apps, instances)
       IN /\ firstResource' = r.t
          /\ err' = r.err
          /\ IF r.err # "nil" THEN pc' = "done" /\ i' = i
             ELSE IF IsZero(r.t) THEN pc' = "loop" /\ i' = i + 1
             ELSE pc' = "classify" /\ i' = i
    /\ UNCHANGED <<inputs, now, toNotify, toPurge, rerun, prevNotify, prevPurge, pvars>>

\* Fault: Classify with the notify test not in the else branch.
ClassifyBoth ==
    /\ pc = "classify"
    /\ LET clamped == Clamp(firstResource, timeStartsAt)
           truncated == Truncate(clamped, Day)
           delta == Delta(now, truncated)
       IN /\ firstResource' = clamped
          /\ toPurge' = IF delta >= purgeThreshold
                        THEN Append(toPurge, SpaceDetails(truncated, spaces[i]))
                        ELSE toPurge
          /\ toNotify' = IF delta >= notifyThreshold
                         THEN Append(toNotify, SpaceDetails(truncated, spaces[i]))
                         ELSE toNotify
    /\ i' = i + 1
    /\ pc' = "loop"
    /\ UNCHANGED <<inputs, now, err, rerun, prevNotify, prevPurge, pvars>>

\* Fault: Classify with strict threshold comparisons.
ClassifyStrict ==
    /\ pc = "classify"
    /\ LET clamped == Clamp(firstResource, timeStartsAt)
           truncated == Truncate(clamped, Day)
           delta == Delta(now, truncated)
       IN /\ firstResource' = clamped
          /\ IF delta > purgeThreshold
             THEN /\ toPurge' = Append(toPurge, SpaceDetails(truncated, spaces[i]))
                  /\ toNotify' = toNotify
             ELSE IF delta > notifyThreshold
             THEN /\ toNotify' = Append(toNotify, SpaceDetails(truncated, spaces[i]))
                  /\ toPurge' = toPurge
             ELSE UNCHANGED <<toNotify, toPurge>>
    /\ i' = i + 1
    /\ pc' = "loop"
    /\ UNCHANGED <<inputs, now, err, rerun, prevNotify, prevPurge, pvars>>

\* Lines 223-233: clamp, truncate, age in days, append.
Classify ==
    /\ pc = "classify"
    /\ LET clamped == Clamp(firstResource, timeStartsAt)
           truncated == Truncate(clamped, Day)
           delta == Delta(now, truncated)
       IN /\ firstResource' = clamped
          /\ IF delta >= purgeThreshold
             THEN /\ toPurge' = Append(toPurge, SpaceDetails(truncated, spaces[i]))
                  /\ toNotify' = toNotify
             ELSE IF delta >= notifyThreshold
             THEN /\ toNotify' = Append(toNotify, SpaceDetails(truncated, spaces[i]))
                  /\ toPurge' = toPurge
             ELSE UNCHANGED <<toNotify, toPurge>>
    /\ i' = i + 1
    /\ pc' = "loop"
    /\ UNCHANGED <<inputs, now, err, rerun, prevNotify, prevPurge, pvars>>

\* Line 235: the return after the last space.
Return ==
    /\ pc = "loop"
    /\ i > Len(spaces)
    /\ pc' = "done"
    /\ UNCHANGED <<inputs, now, i, firstResource, err, toNotify, toPurge,
                   rerun, prevNotify, prevPurge, pvars>>

\* After a successful run the caller runs ListPurgeSpaces again one day later
\* on the same snapshot and thresholds; the first run's results are kept.
NextDay ==
    /\ pc = "done"
    /\ err = "nil"
    /\ ~rerun
    /\ rerun' = TRUE
    /\ prevNotify' = toNotify
    /\ prevPurge' = toPurge
    /\ now' = now + Day
    /\ pc' = "loop"
    /\ i' = 1
    /\ firstResource' = ZeroTime
    /\ err' = "nil"
    /\ toNotify' = <<>>
    /\ toPurge' = <<>>
    /\ UNCHANGED <<inputs, pvars>>

Next == Resolve \/ Classify \/ Return \/ NextDay

Spec == Init /\ [][Next]_vars

(***************************** PurgeSpace ********************************)
AppGuids == {"a1", "a2", "a3"}

\* What ListAppsByQuery can return: distinct applications, in any order.
AppLists ==
    {l \in SeqsUpTo([Guid : AppGuids], MaxListedApps) :
        \A a, b \in DOMAIN l : a # b => l[a] # l[b]}

\* One upstream call, as the platform sees it.
Call(op, guid, ok) == [op |-> op, guid |-> guid, ok |-> ok]

IdleList ==
    /\ spaces = <<>>
    /\ apps = <<>>
    /\ instances = <<>>
    /\ now = 0
    /\ notifyThreshold = 0
    /\ purgeThreshold = 0
    /\ timeStartsAt = 0
    /\ pc = "idle"
    /\ i = 1
    /\ firstResource = ZeroTime
    /\ err = "nil"
    /\ toNotify = <<>>
    /\ toPurge = <<>>
    /\ rerun = FALSE
    /\ prevNotify = <<>>
    /\ prevPurge = <<>>

InitPurge ==
    /\ IdleList
    /\ ppc = "DeleteSpace"
    /\ purgeSpace \in [Guid : Guids]
    /\ spaceErr = NoError
    /\ listedApps = <<>>
    /\ j = 1
    /\ ret = NoError
    /\ calls = <<>>

\* Lines 52-53 and 66: the combined delete; nil is returned when it succeeds.
DeleteSpace ==
    /\ ppc = "DeleteSpace"
    /\ \E ok \in BOOLEAN :
          /\ calls' = Append(calls, Call("DeleteSpace", purgeSpace.Guid, ok))
          /\ spaceErr' = IF ok THEN NoError
                         ELSE Failure("DeleteSpace", purgeSpace.Guid)
          /\ ppc' = IF ok THEN "returned" ELSE "ListApps"
    /\ ret' = NoError
    /\ UNCHANGED <<purgeSpace, listedApps, j, inputs, lvars>>

\* Lines 54-58: the fallback listing; its error is returned.
ListAppsByQuery ==
    /\ ppc = "ListApps"
    /\ \E ok \in BOOLEAN :
          /\ calls' = Append(calls, Call("ListAppsByQuery", purgeSpace.Guid, ok))
          /\ IF ok
             THEN /\ listedApps' \in AppLists
                  /\ ret' = ret
                  /\ ppc' = "DeleteApps"
             ELSE /\ listedApps' = listedApps
                  /\ ret' = Failure("ListAppsByQuery", purgeSpace.Guid)
                  /\ ppc' = "returned"
    /\ j' = 1
    /\ UNCHANGED <<purgeSpace, spaceErr, inputs, lvars>>

\* Fault: the loop goes on after a failed deletion.
DeleteAppContinue ==
    /\ ppc = "DeleteApps"
    /\ j <= Len(listedApps)
    /\ \E ok \in BOOLEAN :
          /\ calls' = Append(calls, Call("DeleteApp", listedApps[j].Guid, ok))
          /\ ret' = IF ok THEN ret ELSE Failure("DeleteApp", listedApps[j].Guid)
    /\ j' = j + 1
    /\ ppc' = "DeleteApps"
    /\ UNCHANGED <<purgeSpace, spaceErr, listedApps, inputs, lvars>>

\* Lines 59-63: one turn of the loop; a failed deletion is returned at once.
DeleteApp ==
    /\ ppc = "DeleteApps"
    /\ j <= Len(listedApps)
    /\ \E ok \in BOOLEAN :
          /\ calls' = Append(calls, Call("DeleteApp", listedApps[j].Guid, ok))
          /\ IF ok
             THEN /\ j' = j + 1
                  /\ ret' = ret
                  /\ ppc' = "DeleteApps"
             ELSE /\ j' = j
                  /\ ret' = Failure("DeleteApp", listedApps[j].Guid)
                  /\ ppc' = "returned"
    /\ UNCHANGED <<purgeSpace, spaceErr, listedApps, inputs, lvars>>

\* Fault: nil is returned once the applications are deleted.
ReturnNil ==
    /\ ppc = "DeleteApps"
    /\ j > Len(listedApps)
    /\ ret' = NoError
    /\ ppc' = "returned"
    /\ UNCHANGED <<purgeSpace, spaceErr, listedApps, j, calls, inputs, lvars>>

\* Line 64: every application is deleted; the space error is returned.
ReturnSpaceErr ==
    /\ ppc = "DeleteApps"
    /\ j > Len(listedApps)
    /\ ret' = spaceErr
    /\ ppc' = "returned"
    /\ UNCHANGED <<purgeSpace, spaceErr, listedApps, j, calls, inputs, lvars>>

NextPurge == DeleteSpace \/ ListAppsByQuery \/ DeleteApp \/ ReturnSpaceErr

SpecPurge == InitPurge /\ [][NextPurge]_vars

(*************************************************************************)
(*                              Properties                               *)
(*************************************************************************)
Entries(list) == {list[k] : k \in DOMAIN list}
Results == Entries(toNotify) \cup Entries(toPurge)
AllResources == Entries(apps) \cup Entries(instances)
Owned(space) == {r \in AllResources : r.SpaceGuid = space.Guid}
ListedSpaces == Entries(spaces)
Finished == pc = "done"
Succeeded == pc = "done" /\ err = "nil"

\* The instant a well-formed timestamp string denotes.
InstantOf(stamp) == stamp.wall - stamp.off
\* The earliest instant among the resources a space owns.
Earliest(space) ==
    CHOOSE t \in {InstantOf(r.CreatedAt) : r \in Owned(space)} :
        \A r \in Owned(space) : t <= InstantOf(r.CreatedAt)
\* t rounded down to a whole number of days since the zero time.
DayFloor(t) == (t \div 24) * 24
\* The difference n - t as a Duration holds it.
Elapsed(n, t) ==
    IF n - t > 2562047 THEN 2562047 ELSE IF n - t < -2562047 THEN -2562047 ELSE n - t
\* Whole days from anchor to n, rounded toward zero / rounded down.
DaysTowardZero(n, anchor) ==
    IF Elapsed(n, anchor) >= 0 THEN Elapsed(n, anchor) \div 24
    ELSE -((-Elapsed(n, anchor)) \div 24)
DaysFloor(n, anchor) == Elapsed(n, anchor) \div 24
\* The anchor of a space whose first resource is first.
AnchorOf(first) == DayFloor(IF first < timeStartsAt THEN timeStartsAt ELSE first)

(******************************* C1 **************************************)
\* C1 as stated: when a run of ListPurgeSpaces has returned and any resource
\* of the application or service-instance list has a timestamp that does not
\* parse, the run returned an error.
C1_AnyMalformedFails ==
    (Finished /\ \E r \in AllResources : ~r.CreatedAt.ok) => err # "nil"

\* C1 amended: when a run has returned and a resource owned by a space of
\* the input space list has a timestamp that does not parse, the run
\* returned an error.
C1_ListedMalformedFails ==
    (Finished /\ \E sp \in ListedSpaces : \E r \in Owned(sp) : ~r.CreatedAt.ok)
        => err = "MalformedTimestamp"

C1_Witness ==
    /\ Finished
    /\ err = "MalformedTimestamp"
    /\ \E sp \in ListedSpaces : \E r \in Owned(sp) : ~r.CreatedAt.ok
    /\ \E sp \in ListedSpaces : \E r \in Owned(sp) : r.CreatedAt.ok

(******************************* C2 **************************************)
\* C2: whenever ListPurgeSpaces returns an error, toNotify and toPurge are
\* both empty.
C2_ErrorMeansNoOutput ==
    (Finished /\ err # "nil") => (toNotify = <<>> /\ toPurge = <<>>)

(******************************* C3 **************************************)
\* C3 as stated: the anchor of every entry of toNotify and toPurge is never
\* earlier than timeStartsAt.
C3_AnchorNotBeforeFloor ==
    \A e \in Results : e.Timestamp >= timeStartsAt

\* C3 amended: the anchor of every entry is never earlier than timeStartsAt
\* rounded down to a day, and it is exactly that instant for a space whose
\* first resource, as GetFirstResource reports it, predates timeStartsAt.
C3_AnchorNotBeforeFloorDay ==
    \A e \in Results :
        /\ e.Timestamp >= DayFloor(timeStartsAt)
        /\ GetFirstResource(e.Space, apps, instances).t < timeStartsAt
               => e.Timestamp = DayFloor(timeStartsAt)

C3_Witness ==
    /\ Succeeded
    /\ timeStartsAt # DayFloor(timeStartsAt)
    /\ \E e \in Results :
          /\ Earliest(e.Space) < timeStartsAt
          /\ e.Timestamp = DayFloor(timeStartsAt)
    /\ \E e \in Results : e.Timestamp > timeStartsAt

(******************************* C4 **************************************)
\* C4: a space of the input list that owns no application and no service
\* instance is in neither toNotify nor toPurge once its turn has passed, and
\* every space in either set owns at least one resource.
C4_EmptySpaceExcluded ==
    /\ \A e \in Results : Owned(e.Space) # {}
    /\ \A k \in DOMAIN spaces :
          (Owned(spaces[k]) = {} /\ (k < i \/ Finished))
              => \A e \in Results : e.Space # spaces[k]

C4_Witness ==
    /\ Succeeded
    /\ \E sp \in ListedSpaces : Owned(sp) = {}
    /\ Results # {}

(******************************* C5 **************************************)
\* C5: with notifyThreshold <= purgeThreshold no space is in both toNotify
\* and toPurge, and a space old enough for both is in toPurge only: every
\* entry of toNotify is younger than purgeThreshold days.
C5_MutuallyExclusive ==
    notifyThreshold <= purgeThreshold =>
        /\ \A a \in Entries(toNotify) : \A b \in Entries(toPurge) : a.Space # b.Space
        /\ \A a \in Entries(toNotify) :
              DaysTowardZero(now, a.Timestamp) < purgeThreshold

C5_Witness ==
    /\ Succeeded
    /\ notifyThreshold < purgeThreshold
    /\ toNotify # <<>>
    /\ \E b \in Entries(toPurge) :
          /\ DaysTowardZero(now, b.Timestamp) >= notifyThreshold
          /\ DaysTowardZero(now, b.Timestamp) >= purgeThreshold

(******************************* C6 **************************************)
\* C6: with notifyThreshold <= purgeThreshold, in the run one day later on
\* the same spaces, resources, timeStartsAt and thresholds, every space that
\* was in toPurge is in toPurge again and every space that was in toNotify
\* is in toNotify or toPurge.
C6_NeverBackward ==
    (rerun /\ Finished /\ notifyThreshold <= purgeThreshold) =>
        /\ \A a \in Entries(prevPurge) : \E b \in Entries(toPurge) : b.Space = a.Space
        /\ \A a \in Entries(prevNotify) : \E b \in Results : b.Space = a.Space

C6_Witness ==
    /\ rerun
    /\ Finished
    /\ notifyThreshold < purgeThreshold
    /\ \E a \in Entries(prevNotify) : \E b \in Entries(toPurge) : b.Space = a.Space
    /\ \E a \in Entries(prevPurge) : \E b \in Entries(toPurge) : b.Space = a.Space

(******************************* C9 **************************************)
\* C9: when every timestamp of both lists parses, the instant GetFirstResource
\* returns for a space is the earliest creation instant among the resources
\* the space owns, and it is the zero time, with no error, exactly when the
\* space owns no resource.
C9_FirstIsEarliest ==
    [][(Resolve /\ \A r \in AllResources : r.CreatedAt.ok) =>
          /\ err' = "nil"
          /\ IsZero(firstResource') <=> Owned(spaces[i]) = {}
          /\ Owned(spaces[i]) # {} => firstResource' = Earliest(spaces[i])]_vars

(******************************* C10 *************************************)
\* The spaces of the input list whose age in days, by the given rounding,
\* satisfies Keep, each with its anchor, in input order.
FirstOf(space) == GetFirstResource(space, apps, instances).t
Selected(Days(_, _), Keep(_)) ==
    LET kept == SelectSeq(spaces,
                    LAMBDA sp : FirstOf(sp) # 0 /\ Keep(Days(now, AnchorOf(FirstOf(sp)))))
    IN [k \in 1..Len(kept) |->
           [Timestamp |-> AnchorOf(FirstOf(kept[k])), Space |-> kept[k]]]

InPurge(d) == d >= purgeThreshold
InNotify(d) == d >= notifyThreshold /\ d < purgeThreshold

\* C10 as stated: after a successful run, with delta the floor of the hours
\* from the truncated anchor to now over 24, toPurge is the spaces with
\* delta >= purgeThreshold and toNotify those with notifyThreshold <= delta
\* < purgeThreshold, in input order.
C10_PartitionByFloor ==
    Succeeded =>
        /\ toPurge = Selected(DaysFloor, InPurge)
        /\ toNotify = Selected(DaysFloor, InNotify)

\* C10 amended: the same with delta rounded toward zero instead of down.
C10_PartitionTowardZero ==
    Succeeded =>
        /\ toPurge = Selected(DaysTowardZero, InPurge)
        /\ toNotify = Selected(DaysTowardZero, InNotify)

C10_Witness ==
    /\ Succeeded
    /\ Len(spaces) = 2
    /\ \E e \in Entries(toNotify) : now < e.Timestamp /\ e.Space = spaces[2]
    /\ FirstOf(spaces[1]) # 0
    /\ \A e \in Results : e.Space # spaces[1]

(******************************* C7 **************************************)
Returned == ppc = "returned"
LastCall == calls[Len(calls)]

\* C7: PurgeSpace returns nil exactly when the space deletion succeeded;
\* after a failed space deletion it returns the listing error when the
\* listing failed, the error of the application deletion that failed, and
\* the space-deletion error when every application deletion succeeded.
C7_ReturnedError ==
    Returned =>
        /\ ret = NoError <=> calls[1].ok
        /\ ~calls[1].ok =>
              /\ (LastCall.op = "ListAppsByQuery" /\ ~LastCall.ok)
                    => ret = Failure("ListAppsByQuery", purgeSpace.Guid)
              /\ (LastCall.op = "DeleteApp" /\ ~LastCall.ok)
                    => ret = Failure("DeleteApp", LastCall.guid)
              /\ LastCall.ok => ret = Failure("DeleteSpace", purgeSpace.Guid)

C7_Witness ==
    /\ Returned
    /\ Len(listedApps) = 2
    /\ Len(calls) = 4
    /\ LastCall.ok
    /\ ret = Failure("DeleteSpace", purgeSpace.Guid)

(******************************* C8 **************************************)
\* C8: the first upstream call is the space deletion and, when it succeeds,
\* the only one; the listing comes second; the application deletions follow
\* one at a time in listing order; and a failed call is the last call.
C8_CallOrder ==
    /\ \A k \in DOMAIN calls : (calls[k].op = "DeleteSpace") <=> (k = 1)
    /\ \A k \in DOMAIN calls : (calls[k].op = "ListAppsByQuery") <=> (k = 2)
    /\ (Len(calls) >= 1 /\ calls[1].ok) => Len(calls) = 1
    /\ \A k \in DOMAIN calls :
          k > 2 => /\ calls[k].op = "DeleteApp"
                   /\ k - 2 <= Len(listedApps)
                   /\ calls[k].guid = listedApps[k - 2].Guid
    /\ \A k \in DOMAIN calls : (k > 1 /\ ~calls[k].ok) => k = Len(calls)
    /\ Returned => Len(calls) >= 1

C8_Witness ==
    /\ Returned
    /\ Len(listedApps) = 2
    /\ Len(calls) = 3
    /\ ~LastCall.ok

====
